---- MODULE Spec2Model ----
(***************************************************************************)
(* Certificate trust-lifecycle manager (helper/certificate_manager.py).    *)
(*                                                                         *)
(* The trust store is an ordered collection of entries; names, labels,     *)
(* file stems and paths are sequences of tokens, so that the substring,    *)
(* glob and character tests of the code are computed, not assumed.         *)
(* Every OS command the manager runs is one step whose outcome (granted,   *)
(* declined, failed, raised, timed out) is chosen by the environment.      *)
(* A second process running the manager on the same store is kept in       *)
(* `other` and scheduled by Switch.  The expired-sessions dialog           *)
(* (helper/expired_sessions_dialog.py) has its own variables and steps.    *)
(***************************************************************************)
EXTENDS Naturals, Sequences, FiniteSets, TLC

VARIABLES
    platform,        \* platform.system()
    artifactExists,  \* CA_CERT_PATH.exists()
    certPath,        \* str(CA_CERT_PATH), a sequence of characters
    store,           \* the OS trust store: sequence of [name, issuer, hash]
    pc,              \* position of the running operation
    op,              \* the operation the caller invoked: "none" | "install" | "uninstall"
    silent,          \* uninstall_certificates' silent argument
    nested,          \* uninstall_certificates was called from install_certificate
    all_certs,       \* install_certificate: result of its detection
    installed_certs, \* uninstall_certificates: result of its detection
    cert_hashes,     \* uninstall_certificates (Windows): hashes collected
    idx,             \* uninstall_certificates (macOS, Linux): loop position
    removed_count,   \* uninstall_certificates: removed_count
    uret,            \* value uninstall_certificates returned: "none" | TRUE | FALSE
    scratch,         \* generated batch scripts still on disk
    built,           \* privileged commands / scripts constructed in this call
    gateway,         \* privileged-execution invocations issued in this call
    declined,        \* an elevation prompt of this call was declined
    questions,       \* confirmation questions asked in this call
    notices,         \* other dialogs shown in this call
    verified,        \* is_certificate_installed() ran after the install and found the entry
    queryFailed,     \* a store query of this call exited non-zero, raised or timed out
    queries,         \* store queries run in this call
    cmdFailed,       \* a script write, launch or privileged command of this call was
                     \* declined, failed, raised, timed out or took no effect
    response,        \* the answer to the confirmation question of this call
    message,         \* the identity list shown in the uninstall confirmation
    waits,           \* completion waits (time.sleep) performed in this call
    okLaunches,      \* ShellExecuteW launches of this call that returned > 32
    refreshes,       \* `update-ca-certificates` runs of uninstall_certificates in this call
    result,          \* value the operation returned: "none" | TRUE | FALSE
    err,             \* failure kind of the returned operation
    startStore,      \* the trust store when the operation was invoked
    hist,            \* completed operations: sequence of [op, result]
    other,           \* the state of the process that is not scheduled
    argv,            \* expired-sessions dialog: sys.argv[1] ("missing", "badjson" or a list)
    dpc,             \* expired-sessions dialog: position of the script
    expired_sessions,  \* ExpiredSessionsDialog.expired_sessions (user ids)
    selected_user_id,  \* ExpiredSessionsDialog.selected_user_id
    session_frames,    \* ExpiredSessionsDialog.session_frames (its keys)
    dialog_result      \* ExpiredSessionsDialog.result

vars == <<platform, artifactExists, certPath, store, pc, op, silent, nested,
          all_certs, installed_certs, cert_hashes, idx, removed_count, uret,
          scratch, built, gateway, declined, questions, notices, verified,
          queryFailed, queries, cmdFailed, response, message, waits, okLaunches,
          refreshes, result, err, startStore, hist, other, argv, dpc,
          expired_sessions, selected_user_id, session_frames, dialog_result>>

\* ---------------------------------------------------------------- bounds
MaxStore == 2   \* entries in the trust store when the first operation starts
MaxCalls == 2   \* operations invoked one after the other
MaxList == 7    \* matching entries in the stores of the confirmation-list specification
MaxSessions == 4  \* expired sessions handed to the expired-sessions dialog

\* ---------------------------------------------------------------- names
\* identities shown in the uninstall confirmation: the slice `[:5]` and `len > 5`
ListLimit == 5

SupportedPlatforms == {"Windows", "Darwin", "Linux"}
\* platform.system() values; "FreeBSD" stands for every platform without a branch
Platforms == SupportedPlatforms \cup {"FreeBSD"}

\* 'Shipping Manager CoPilot CA'
CurrentCN == <<"Shipping", "Manager", "CoPilot", "CA">>
\* 'Shipping Manager Chat CA'
LegacyCN == <<"Shipping", "Manager", "Chat", "CA">>
\* a root certificate of somebody else
OtherCN == <<"Other", "Root", "CA">>
\* 'Shipping Manager CoPilot', the macOS search string
OrgLabel == <<"Shipping", "Manager", "CoPilot">>

\* /usr/local/share/ca-certificates/shipping-manager-copilot-ca.crt
CanonStem == <<"shipping", "manager", "copilot", "ca">>
OldStem == <<"old", "shipping", "manager", "copilot", "ca">>
LegacyStem == <<"shipping", "manager", "chat", "ca">>
OtherStem == <<"other", "root", "ca">>

\* content hash of the certificate artifact ca-cert.pem
ArtifactHash == "hA"

Entry(n, h) == [name |-> n, issuer |-> n, hash |-> h]

\* the entries a store may hold when the manager is started
Protos(p) ==
    IF p = "Linux"
    THEN {Entry(CanonStem, ArtifactHash), Entry(OldStem, "hB"),
          Entry(LegacyStem, "hL"), Entry(OtherStem, "hO")}
    ELSE {Entry(CurrentCN, ArtifactHash), Entry(CurrentCN, "hB"),
          Entry(LegacyCN, "hL"), Entry(OtherCN, "hO")}

\* artifact paths: one plain path, and one per character the code rejects
Paths == {<<"c", "a">>, <<"c", "'", "a">>, <<"c", "\"", "a">>, <<"c", ";", "a">>}

\* ---------------------------------------------------------------- helpers
Range(s) == {s[i] : i \in 1..Len(s)}

\* Python's `sub in s` on token sequences
Contains(s, sub) ==
    \E i \in 0..Len(s) :
        /\ i + Len(sub) <= Len(s)
        /\ \A j \in 1..Len(sub) : s[i + j] = sub[j]

\* s with its i-th element removed
RemoveAt(s, i) == SubSeq(s, 1, i - 1) \o SubSeq(s, i + 1, Len(s))

RECURSIVE SelectSeqBy(_, _)
\* the elements of s whose hash is not in D, in order
SelectSeqBy(s, D) ==
    IF s = <<>> THEN <<>>
    ELSE (IF Head(s).hash \in D THEN <<>> ELSE <<Head(s)>>) \o SelectSeqBy(Tail(s), D)

\* ---------------------------------------------------------------- detection
QueryOutcomes == {"ok", "fail", "raise"}

\* `certutil -store Root`: the lines of the listing of one certificate record
RecordLines(e) ==
    << [tag |-> "Sep", dn |-> <<>>, hash |-> ""],
       [tag |-> "Issuer", dn |-> <<"CN=">> \o e.issuer, hash |-> ""],
       [tag |-> "Subject", dn |-> <<"CN=">> \o e.name, hash |-> ""] >>
    \o (IF e.hash = "" THEN <<>> ELSE <<[tag |-> "Hash", dn |-> <<>>, hash |-> e.hash]>>)

RECURSIVE Listing(_)
\* `certutil -store Root`: result.stdout.split('\n')
Listing(st) == IF st = <<>> THEN <<>> ELSE RecordLines(Head(st)) \o Listing(Tail(st))

\* the line test that knows the legacy name only
LineHasLegacyCN(line) == Contains(line.dn, <<"CN=">> \o LegacyCN)

\* 'CN=Shipping Manager CoPilot CA' in line or 'CN=Shipping Manager Chat CA' in line
LineHasOurCN(line) ==
    \/ Contains(line.dn, <<"CN=">> \o CurrentCN)
    \/ Contains(line.dn, <<"CN=">> \o LegacyCN)

\* ':' in line
LineHasColon(line) == line.tag \in {"Issuer", "Subject", "Hash"}

RECURSIVE WinSubjects(_, _)
\* the Windows loop of get_all_installed_certificates over the listing
WinSubjects(lines, found) ==
    IF lines = <<>> THEN found
    ELSE LET line == Head(lines)
             subject == line.dn
         IN  IF LineHasOurCN(line) /\ LineHasColon(line) /\ subject \notin Range(found)
             THEN WinSubjects(Tail(lines), Append(found, subject))
             ELSE WinSubjects(Tail(lines), found)

RECURSIVE MacLabels(_)
\* `security find-certificate -a -c 'Shipping Manager CoPilot'`: the "labl" lines printed
MacLabels(st) ==
    IF st = <<>> THEN <<>>
    ELSE (IF Contains(Head(st).name, OrgLabel) THEN <<Head(st).name>> ELSE <<>>)
         \o MacLabels(Tail(st))

\* the file stem matches the glob '*shipping*manager*copilot*.crt'
GlobMatch(stem) ==
    \E i, j, k \in 1..Len(stem) :
        /\ i < j /\ j < k
        /\ stem[i] = "shipping" /\ stem[j] = "manager" /\ stem[k] = "copilot"

RECURSIVE LinuxStems(_)
\* cert_dir.glob(...): the stems of the matching files
LinuxStems(st) ==
    IF st = <<>> THEN <<>>
    ELSE (IF GlobMatch(Head(st).name) THEN <<Head(st).name>> ELSE <<>>) \o LinuxStems(Tail(st))

\* get_all_installed_certificates(): q is the outcome of the query command
get_all_installed_certificates(p, st, q) ==
    IF q # "ok" THEN <<>>
    ELSE IF p = "Windows" THEN WinSubjects(Listing(st), <<>>)
    ELSE IF p = "Darwin"
         THEN SelectSeq(MacLabels(st), LAMBDA label : Contains(label, OrgLabel))
    ELSE IF p = "Linux" THEN LinuxStems(st)
    ELSE <<>>

\* the check that looks for the legacy name whatever name it is given
is_legacy_installed(p, st, q, common_name) ==
    IF p = "Windows" \/ p = "Darwin"
    THEN q = "ok" /\ \E i \in 1..Len(st) : Contains(st[i].name, LegacyCN)
    ELSE IF p = "Linux" THEN \E i \in 1..Len(st) : st[i].name = LegacyStem
    ELSE FALSE

\* is_certificate_installed(common_name): q is the outcome of the query command
is_certificate_installed(p, st, q, common_name) ==
    IF p = "Windows" \/ p = "Darwin"
    THEN q = "ok" /\ \E i \in 1..Len(st) : Contains(st[i].name, common_name)
    ELSE IF p = "Linux" THEN \E i \in 1..Len(st) : st[i].name = CanonStem
    ELSE FALSE

\* ---------------------------------------------------------------- removal scan
\* '(sha1):' in line and not line.strip().startswith('--')
LineIsHash(line) == line.tag = "Hash"

RECURSIVE ScanHashes(_, _, _)
\* uninstall_certificates (Windows): "FIRST: Collect all hashes"
ScanHashes(lines, found_our_cert, hashes) ==
    IF lines = <<>> THEN hashes
    ELSE LET line == Head(lines)
         IN  IF LineHasOurCN(line)
             THEN ScanHashes(Tail(lines), TRUE, hashes)
             ELSE IF found_our_cert /\ LineIsHash(line)
             THEN ScanHashes(Tail(lines), FALSE, Append(hashes, line.hash))
             ELSE ScanHashes(Tail(lines), found_our_cert, hashes)

\* ---------------------------------------------------------------- the OS side
\* `certutil -addstore -f Root` / `security add-trusted-cert`: the artifact's
\* certificate is in the store afterwards, once
AddCert(st) ==
    IF \E i \in 1..Len(st) : st[i].hash = ArtifactHash
    THEN st
    ELSE Append(st, Entry(CurrentCN, ArtifactHash))

\* `cp ca-cert.pem .../shipping-manager-copilot-ca.crt`
CopyCert(st) ==
    Append(SelectSeq(st, LAMBDA e : e.name # CanonStem), Entry(CanonStem, ArtifactHash))

\* `rm -f .../<stem>.crt`
RemoveFile(st, stem) == SelectSeq(st, LAMBDA e : e.name # stem)

\* the path test of install_certificate (Windows)
UnsafePath(path) == "'" \in Range(path) \/ "\"" \in Range(path) \/ ";" \in Range(path)

\* ---------------------------------------------------------------- control
envVars == <<platform, artifactExists, certPath>>

\* the expired-sessions dialog script
dialogVars == <<argv, dpc, expired_sessions, selected_user_id, session_frames,
                dialog_result>>

\* what no step of the running manager operation touches
outside == <<other, dialogVars>>

\* the state a process running the manager keeps for itself
Locals ==
    [pc |-> pc, op |-> op, silent |-> silent, nested |-> nested,
     all_certs |-> all_certs, installed_certs |-> installed_certs,
     cert_hashes |-> cert_hashes, idx |-> idx, removed_count |-> removed_count,
     uret |-> uret, scratch |-> scratch, built |-> built, gateway |-> gateway,
     declined |-> declined, questions |-> questions, notices |-> notices,
     verified |-> verified, queryFailed |-> queryFailed, queries |-> queries,
     cmdFailed |-> cmdFailed, response |-> response, message |-> message,
     waits |-> waits, okLaunches |-> okLaunches, refreshes |-> refreshes,
     result |-> result, err |-> err, startStore |-> startStore, hist |-> hist]

Responses == {"Yes", "No", "closed"}

\* initial trust stores: no entry twice, no two files of one name
Stores(p) ==
    {s \in UNION {[1..n -> Protos(p)] : n \in 0..MaxStore} :
        \A i, j \in 1..Len(s) : i # j => s[i].name # s[j].name \/
                                          (p # "Linux" /\ s[i].hash # s[j].hash)}

Goto(l) == pc' = l /\ UNCHANGED <<result, err, hist, uret>>

\* the invoked operation o returns val to its caller
Finish(o, val, e) ==
    /\ pc' = "done"
    /\ result' = val
    /\ err' = e
    /\ hist' = Append(hist, [op |-> o, result |-> val])

Return(val, e) == Finish(op, val, e) /\ UNCHANGED uret

\* a consolidation whose failure ends install_certificate
UReturnPropagates(val, e) ==
    /\ uret' = val
    /\ IF nested /\ val = "True"
       THEN pc' = "i_platform" /\ UNCHANGED <<result, err, hist>>
       ELSE Finish(op, val, e)

\* uninstall_certificates returns val: to install_certificate, or to the caller
UReturn(val, e) ==
    /\ uret' = val
    /\ IF nested
       THEN pc' = "i_platform" /\ UNCHANGED <<result, err, hist>>
       ELSE Finish("uninstall", val, e)

\* the exception leaves the operation and ends the hosting process
Escape == pc' = "crashed" /\ UNCHANGED <<result, err, hist, uret>>

\* a narrower handler: `except subprocess.SubprocessError`
CaughtSubprocessOnly(exc) == exc \in {"TimeoutExpired", "CalledProcessError"}

\* `except Exception` (and the bare `except:` of the helpers) catches exc
Caught(exc) ==
    exc \in {"TimeoutExpired", "CalledProcessError", "OSError", "ValueError", "Exception"}

\* exc is raised inside a try block whose handler continues with ctl
Except(exc, ctl) == IF Caught(exc) THEN ctl ELSE Escape

Notify(n) == notices' = notices + n

\* `response != 'Yes'` negated, with the closed dialog taken for consent
AffirmativeUnlessNo(resp) == resp # "No"

\* the answer lets the operation go on
Affirmative(resp) == resp = "Yes"

\* the artifact check that is never true
ArtifactNeverMissing(exists) == FALSE

\* `not CA_CERT_PATH.exists()`
ArtifactMissing(exists) == ~exists

\* the state of one call, as a new call finds it
ResetCall ==
    /\ installed_certs' = <<>>
    /\ cert_hashes' = <<>>
    /\ idx' = 0
    /\ removed_count' = 0
    /\ uret' = "none"
    /\ scratch' = {}
    /\ built' = 0
    /\ gateway' = 0
    /\ declined' = FALSE
    /\ questions' = 0
    /\ verified' = FALSE
    /\ cmdFailed' = FALSE
    /\ response' = "none"
    /\ message' = [shown |-> <<>>, more |-> FALSE]
    /\ waits' = 0
    /\ okLaunches' = 0
    /\ refreshes' = 0
    /\ startStore' = store

\* the manager before its first call
InitCall ==
    /\ pc = "idle"
    /\ op = "none"
    /\ silent = FALSE
    /\ nested = FALSE
    /\ all_certs = <<>>
    /\ installed_certs = <<>>
    /\ cert_hashes = <<>>
    /\ idx = 0
    /\ removed_count = 0
    /\ uret = "none"
    /\ scratch = {}
    /\ built = 0
    /\ gateway = 0
    /\ declined = FALSE
    /\ questions = 0
    /\ notices = 0
    /\ verified = FALSE
    /\ queryFailed = FALSE
    /\ queries = 0
    /\ cmdFailed = FALSE
    /\ response = "none"
    /\ message = [shown |-> <<>>, more |-> FALSE]
    /\ waits = 0
    /\ okLaunches = 0
    /\ refreshes = 0
    /\ result = "none"
    /\ err = "none"
    /\ startStore = store
    /\ hist = <<>>
    /\ other = [Locals EXCEPT !.startStore = <<>>]

\* the dialog script not started
NoDialog ==
    /\ argv = [kind |-> "missing", value |-> <<>>]
    /\ dpc = "off"
    /\ expired_sessions = <<>>
    /\ selected_user_id = "None"
    /\ session_frames = {}
    /\ dialog_result = "None"

Init ==
    /\ platform \in Platforms
    /\ artifactExists \in BOOLEAN
    /\ certPath \in Paths
    /\ store \in Stores(platform)
    /\ InitCall
    /\ NoDialog

\* ---------------------------------------------------------------- install
\* install_certificate(): artifact check and detection
install_certificate_begin ==
    /\ pc \in {"idle", "done"}
    /\ Len(hist) < MaxCalls
    /\ ResetCall
    /\ op' = "install"
    /\ silent' = FALSE
    /\ nested' = FALSE
    /\ IF ArtifactMissing(artifactExists)
       THEN /\ all_certs' = <<>>
            /\ notices' = 1
            /\ queryFailed' = FALSE
            /\ queries' = 0
            /\ Finish("install", "False", "ArtifactMissing")
       ELSE \E q \in QueryOutcomes :
            /\ all_certs' = get_all_installed_certificates(platform, store, q)
            /\ queryFailed' = (q # "ok")
            /\ queries' = 1
            /\ notices' = 0
            /\ pc' = IF q = "raise" /\ ~Caught("OSError") THEN "crashed"
                     ELSE IF all_certs' # <<>> THEN "i_confirm" ELSE "i_platform"
            /\ result' = "none"
            /\ err' = "none"
            /\ hist' = hist
    /\ UNCHANGED <<envVars, store, outside>>

\* a consolidation that talks to the user
ConsolidationLoud == FALSE

\* `uninstall_certificates(silent=True)`: the argument install_certificate passes
ConsolidationSilent == TRUE

\* install_certificate(): "Old Certificates Found" question, then the silent uninstall
install_confirm ==
    /\ pc = "i_confirm"
    /\ questions' = questions + 1
    /\ \E resp \in Responses :
        /\ response' = resp
        /\ IF ~Affirmative(resp)
           THEN Return("False", "Cancelled") /\ UNCHANGED <<silent, nested>>
           ELSE silent' = ConsolidationSilent /\ nested' = TRUE /\ Goto("u_detect")
    /\ UNCHANGED <<envVars, store, op, all_certs, installed_certs, cert_hashes, idx,
                   removed_count, scratch, built, gateway, declined, notices,
                   verified, queryFailed, queries, cmdFailed, message, waits,
                   okLaunches, startStore, refreshes, outside>>

\* ---------------------------------------------------------------- uninstall
\* uninstall_certificates(silent) invoked by the caller
uninstall_certificates_begin ==
    /\ pc \in {"idle", "done"}
    /\ Len(hist) < MaxCalls
    /\ ResetCall
    /\ op' = "uninstall"
    /\ silent' \in BOOLEAN
    /\ nested' = FALSE
    /\ all_certs' = <<>>
    /\ notices' = 0
    /\ queryFailed' = FALSE
    /\ queries' = 0
    /\ pc' = "u_detect"
    /\ result' = "none"
    /\ err' = "none"
    /\ hist' = hist
    /\ UNCHANGED <<envVars, store, outside>>

\* where uninstall_certificates goes after its detection
NoNoopAfterDetect(certs, sil) == IF sil THEN "u_platform" ELSE "u_confirm"

AfterDetect(certs, sil) ==
    IF certs = <<>> THEN "return"
    ELSE IF sil THEN "u_platform" ELSE "u_confirm"

\* uninstall_certificates(): detection, and the return when nothing is found
uninstall_detect ==
    /\ pc = "u_detect"
    /\ queries' = queries + 1
    /\ \E q \in QueryOutcomes :
        LET certs == get_all_installed_certificates(platform, store, q)
            nxt == AfterDetect(certs, silent)
        IN  /\ installed_certs' = certs
            /\ queryFailed' = (queryFailed \/ q # "ok")
            /\ IF q = "raise" /\ ~Caught("OSError")
               THEN Escape /\ UNCHANGED <<idx, notices>>
               ELSE IF nxt = "return"
               THEN /\ Notify(IF silent THEN 0 ELSE 1)
                    /\ UReturn("True", "none")
                    /\ UNCHANGED idx
               ELSE /\ Goto(nxt)
                    /\ idx' = 1
                    /\ UNCHANGED notices
    /\ UNCHANGED <<envVars, store, op, silent, nested, all_certs, cert_hashes,
                   removed_count, scratch, built, gateway, declined, questions,
                   verified, cmdFailed, response, message, waits, okLaunches,
                   startStore, refreshes, outside>>

\* the first n elements of s: the slice s[:n]
RECURSIVE Take(_, _)
Take(s, n) == IF n = 0 \/ s = <<>> THEN <<>> ELSE <<Head(s)>> \o Take(Tail(s), n - 1)

\* the slice that shows one identity fewer
ConfirmListShort(certs) ==
    [shown |-> Take(certs, ListLimit - 1), more |-> Len(certs) > ListLimit - 1]

\* the list of the confirmation: `installed_certs[:5]`, then "..." if `len > 5`
ConfirmList(certs) ==
    [shown |-> Take(certs, ListLimit), more |-> Len(certs) > ListLimit]

\* uninstall_certificates(): "Confirm Uninstallation" question
uninstall_confirm ==
    /\ pc = "u_confirm"
    /\ questions' = questions + 1
    /\ message' = ConfirmList(installed_certs)
    /\ \E resp \in Responses :
        /\ response' = resp
        /\ IF ~Affirmative(resp)
           THEN UReturn("False", "Cancelled")
           ELSE Goto("u_platform")
    /\ UNCHANGED <<envVars, store, op, silent, nested, all_certs, installed_certs,
                   cert_hashes, idx, removed_count, scratch, built, gateway,
                   declined, notices, verified, queryFailed, queries, cmdFailed,
                   waits, okLaunches, startStore, refreshes, outside>>

\* Windows: list the root store, collect the hashes, write the batch file
uninstall_win_scan ==
    /\ pc = "u_platform"
    /\ platform = "Windows"
    /\ queries' = queries + 1
    /\ \E q \in QueryOutcomes :
        /\ queryFailed' = (queryFailed \/ q # "ok")
        /\ Notify(IF silent THEN 0 ELSE IF q = "raise" THEN 2 ELSE 1)
        /\ \/ /\ q = "raise"
              /\ Except("OSError", UReturn("False", "Exception"))
              /\ UNCHANGED <<cert_hashes, scratch, built, cmdFailed>>
           \/ /\ q = "fail"
              /\ Goto("u_finish")
              /\ UNCHANGED <<cert_hashes, scratch, built, cmdFailed>>
           \/ /\ q = "ok"
              /\ cert_hashes' = ScanHashes(Listing(store), FALSE, <<>>)
              /\ IF cert_hashes' = <<>>
                 THEN Goto("u_finish") /\ UNCHANGED <<scratch, built, cmdFailed>>
                 ELSE /\ built' = built + 1
                      /\ scratch' = scratch \cup {"uninstall.bat"}
                      /\ \E written \in BOOLEAN :
                            /\ cmdFailed' = (cmdFailed \/ ~written)
                            /\ IF written THEN Goto("u_launch")
                               ELSE Except("OSError", Goto("u_finish"))
    /\ UNCHANGED <<envVars, store, op, silent, nested, all_certs, installed_certs,
                   idx, removed_count, gateway, declined, questions, verified,
                   response, message, waits, okLaunches, startStore, refreshes, outside>>

LaunchOutcomes == {"granted", "denied", "launchfail", "raise"}

\* Windows: ShellExecuteW(runas) of the batch, the wait, the unlink, `ret > 32`
uninstall_win_launch ==
    /\ pc = "u_launch"
    /\ gateway' = gateway + 1
    /\ \E out \in LaunchOutcomes :
        /\ declined' = (declined \/ out = "denied")
        /\ \/ /\ out = "granted"
              /\ \E D \in SUBSET Range(cert_hashes) :
                    /\ store' = SelectSeqBy(store, D)
                    /\ cmdFailed' = (cmdFailed \/ D # Range(cert_hashes))
              /\ waits' = waits + 1
              /\ okLaunches' = okLaunches + 1
              /\ removed_count' = Len(cert_hashes)
              /\ \E unlinked \in BOOLEAN :
                    scratch' = IF unlinked THEN scratch \ {"uninstall.bat"} ELSE scratch
              /\ Goto("u_finish")
           \/ /\ out \in {"denied", "launchfail"}
              /\ waits' = waits + 1
              /\ cmdFailed' = TRUE
              /\ \E unlinked \in BOOLEAN :
                    scratch' = IF unlinked THEN scratch \ {"uninstall.bat"} ELSE scratch
              /\ Goto("u_finish")
              /\ UNCHANGED <<store, removed_count, okLaunches>>
           \/ /\ out = "raise"
              /\ cmdFailed' = TRUE
              /\ Except("OSError", Goto("u_finish"))
              /\ UNCHANGED <<store, removed_count, scratch, waits, okLaunches>>
    /\ UNCHANGED <<envVars, op, silent, nested, all_certs, installed_certs,
                   cert_hashes, idx, built, questions, notices, verified,
                   queryFailed, queries, response, message, startStore, refreshes, outside>>

CommandOutcomes == {"ok", "denied", "fail", "timeout"}

\* macOS: one osascript `security delete-certificate -c <name>` per detected label
uninstall_mac_delete ==
    /\ pc = "u_platform"
    /\ platform = "Darwin"
    /\ idx <= Len(installed_certs)
    /\ Notify(IF ~silent /\ idx = 1 THEN 1 ELSE 0)
    /\ built' = built + 1
    /\ gateway' = gateway + 1
    /\ idx' = idx + 1
    /\ \E out \in CommandOutcomes :
        LET continue == Goto(IF idx = Len(installed_certs) THEN "u_finish"
                             ELSE "u_platform")
        IN  /\ declined' = (declined \/ out = "denied")
            /\ cmdFailed' = (cmdFailed \/ out # "ok")
            /\ IF out = "ok"
               THEN \E i \in 1..Len(store) :
                        /\ Contains(store[i].name, installed_certs[idx])
                        /\ store' = RemoveAt(store, i)
                        /\ removed_count' = removed_count + 1
               ELSE UNCHANGED <<store, removed_count>>
            /\ IF out = "timeout" THEN Except("TimeoutExpired", continue) ELSE continue
    /\ UNCHANGED <<envVars, op, silent, nested, all_certs, installed_certs,
                   cert_hashes, scratch, questions, verified, queryFailed, queries,
                   response, message, waits, okLaunches, startStore, refreshes, outside>>

\* the loop that refreshes the store whether or not a file was deleted
AfterRmAlwaysRefresh(i, n, removed) ==
    IF i < n THEN "u_platform" ELSE "u_refresh"

\* the Linux loop after entry i of n: next entry, then `if removed_count > 0`
AfterRm(i, n, removed) ==
    IF i < n THEN "u_platform"
    ELSE IF removed > 0 THEN "u_refresh"
    ELSE "u_finish"

\* Linux: one `pkexec rm -f <file>` (check=True) per detected file
uninstall_linux_rm ==
    /\ pc = "u_platform"
    /\ platform = "Linux"
    /\ idx <= Len(installed_certs)
    /\ Notify(IF ~silent /\ idx = 1 THEN 1 ELSE 0)
    /\ built' = built + 1
    /\ gateway' = gateway + 1
    /\ idx' = idx + 1
    /\ \E out \in CommandOutcomes :
        LET continue == Goto(AfterRm(idx, Len(installed_certs), removed_count'))
        IN  /\ declined' = (declined \/ out = "denied")
            /\ cmdFailed' = (cmdFailed \/ out # "ok")
            /\ IF out = "ok"
               THEN /\ store' = RemoveFile(store, installed_certs[idx])
                    /\ removed_count' = removed_count + 1
               ELSE UNCHANGED <<store, removed_count>>
            /\ IF out = "ok" THEN continue
               ELSE Except(IF out = "timeout" THEN "TimeoutExpired"
                           ELSE "CalledProcessError", continue)
    /\ UNCHANGED <<envVars, op, silent, nested, all_certs, installed_certs,
                   cert_hashes, scratch, questions, verified, queryFailed, queries,
                   response, message, waits, okLaunches, startStore, refreshes, outside>>

\* Linux: `pkexec update-ca-certificates` after the deletions (no check=True)
uninstall_linux_refresh ==
    /\ pc = "u_refresh"
    /\ built' = built + 1
    /\ gateway' = gateway + 1
    /\ refreshes' = refreshes + 1
    /\ \E out \in CommandOutcomes :
        /\ declined' = (declined \/ out = "denied")
        /\ cmdFailed' = (cmdFailed \/ out # "ok")
        /\ IF out = "timeout"
           THEN /\ Notify(IF silent THEN 0 ELSE 1)
                /\ Except("TimeoutExpired", UReturn("False", "Exception"))
           ELSE Goto("u_finish") /\ UNCHANGED notices
    /\ UNCHANGED <<envVars, store, op, silent, nested, all_certs, installed_certs,
                   cert_hashes, idx, removed_count, scratch, questions, verified,
                   queryFailed, queries, response, message, waits, okLaunches,
                   startStore, outside>>

\* uninstall_certificates(): completion dialog and `return removed_count > 0`
uninstall_finish ==
    /\ pc = "u_finish"
    /\ Notify(IF silent THEN 0 ELSE 1)
    /\ UReturn(IF removed_count > 0 THEN "True" ELSE "False",
               IF removed_count > 0 THEN "none" ELSE "NothingRemoved")
    /\ UNCHANGED <<envVars, store, op, silent, nested, all_certs, installed_certs,
                   cert_hashes, idx, removed_count, scratch, built, gateway,
                   declined, questions, verified, queryFailed, queries, cmdFailed,
                   response, message, waits, okLaunches, startStore, refreshes, outside>>

\* ---------------------------------------------------------------- install, per platform
\* Windows: UAC notice, path test, batch file written
install_win_prepare ==
    /\ pc = "i_platform"
    /\ platform = "Windows"
    /\ IF UnsafePath(certPath)
       THEN /\ Notify(2)
            /\ Except("ValueError", Return("False", "UnsafePath"))
            /\ UNCHANGED <<built, scratch, cmdFailed>>
       ELSE /\ built' = built + 1
            /\ scratch' = scratch \cup {"install.bat"}
            /\ \E written \in BOOLEAN :
                /\ cmdFailed' = (cmdFailed \/ ~written)
                /\ IF written
                   THEN Notify(1) /\ Goto("i_launch")
                   ELSE Notify(2) /\ Except("OSError", Return("False", "Exception"))
    /\ UNCHANGED <<envVars, store, op, silent, nested, all_certs, installed_certs,
                   cert_hashes, idx, removed_count, gateway, declined, questions,
                   verified, queryFailed, queries, response, message, waits,
                   okLaunches, startStore, refreshes, outside>>

\* Windows: ShellExecuteW(runas) of the batch, `ret <= 32`, the wait, the unlink
install_win_launch ==
    /\ pc = "i_launch"
    /\ gateway' = gateway + 1
    /\ \E out \in LaunchOutcomes :
        /\ declined' = (declined \/ out = "denied")
        /\ \/ /\ out = "granted"
              /\ \E effective \in BOOLEAN :
                    /\ store' = IF effective THEN AddCert(store) ELSE store
                    /\ cmdFailed' = (cmdFailed \/ ~effective)
              /\ waits' = waits + 1
              /\ okLaunches' = okLaunches + 1
              /\ \E unlinked \in BOOLEAN :
                    scratch' = IF unlinked THEN scratch \ {"install.bat"} ELSE scratch
              /\ Goto("i_verify")
              /\ UNCHANGED notices
           \/ /\ out \in {"denied", "launchfail"}
              /\ cmdFailed' = TRUE
              /\ \E unlinked \in BOOLEAN :
                    scratch' = IF unlinked THEN scratch \ {"install.bat"} ELSE scratch
              /\ Notify(1)
              /\ Except("Exception", Return("False", "ElevationLaunchFailed"))
              /\ UNCHANGED <<store, waits, okLaunches>>
           \/ /\ out = "raise"
              /\ cmdFailed' = TRUE
              /\ Notify(1)
              /\ Except("OSError", Return("False", "Exception"))
              /\ UNCHANGED <<store, scratch, waits, okLaunches>>
    /\ UNCHANGED <<envVars, op, silent, nested, all_certs, installed_certs,
                   cert_hashes, idx, removed_count, built, questions, verified,
                   queryFailed, queries, response, message, startStore, refreshes, outside>>

\* Windows: "Verify installation worked"
install_win_verify ==
    /\ pc = "i_verify"
    /\ Notify(1)
    /\ queries' = queries + 1
    /\ \E q \in QueryOutcomes :
        /\ queryFailed' = (queryFailed \/ q # "ok")
        /\ IF q = "raise" /\ ~Caught("OSError")
           THEN verified' = FALSE /\ Escape
           ELSE IF is_certificate_installed(platform, store, q, CurrentCN)
           THEN verified' = TRUE /\ Return("True", "none")
           ELSE verified' = FALSE /\ Except("Exception", Return("False", "InstallUnverified"))
    /\ UNCHANGED <<envVars, store, op, silent, nested, all_certs, installed_certs,
                   cert_hashes, idx, removed_count, scratch, built, gateway,
                   declined, questions, cmdFailed, response, message, waits,
                   okLaunches, startStore, refreshes, outside>>

\* macOS: osascript `security add-trusted-cert ... {CA_CERT_PATH}`
install_mac ==
    /\ pc = "i_platform"
    /\ platform = "Darwin"
    /\ built' = built + 1
    /\ gateway' = gateway + 1
    /\ Notify(2)
    /\ \E out \in CommandOutcomes :
        /\ declined' = (declined \/ out = "denied")
        /\ cmdFailed' = (cmdFailed \/ out # "ok")
        /\ IF out = "ok"
           THEN store' = AddCert(store) /\ Return("True", "none")
           ELSE /\ UNCHANGED store
                /\ IF out = "timeout"
                   THEN Except("TimeoutExpired", Return("False", "Timeout"))
                   ELSE Except("Exception", Return("False", "CommandFailed"))
    /\ UNCHANGED <<envVars, op, silent, nested, all_certs, installed_certs,
                   cert_hashes, idx, removed_count, scratch, questions, verified,
                   queryFailed, queries, response, message, waits, okLaunches,
                   startStore, refreshes, outside>>

\* Linux: `pkexec cp` of the artifact into the ca-certificates directory
install_linux_cp ==
    /\ pc = "i_platform"
    /\ platform = "Linux"
    /\ built' = built + 1
    /\ gateway' = gateway + 1
    /\ \E out \in CommandOutcomes :
        /\ declined' = (declined \/ out = "denied")
        /\ cmdFailed' = (cmdFailed \/ out # "ok")
        /\ IF out = "ok"
           THEN store' = CopyCert(store) /\ Notify(1) /\ Goto("i_refresh")
           ELSE /\ UNCHANGED store
                /\ Notify(2)
                /\ IF out = "timeout"
                   THEN Except("TimeoutExpired", Return("False", "Timeout"))
                   ELSE Except("CalledProcessError", Return("False", "CommandFailed"))
    /\ UNCHANGED <<envVars, op, silent, nested, all_certs, installed_certs,
                   cert_hashes, idx, removed_count, scratch, questions, verified,
                   queryFailed, queries, response, message, waits, okLaunches,
                   startStore, refreshes, outside>>

\* Linux: `pkexec update-ca-certificates` after the copy
install_linux_refresh ==
    /\ pc = "i_refresh"
    /\ built' = built + 1
    /\ gateway' = gateway + 1
    /\ Notify(1)
    /\ \E out \in CommandOutcomes :
        /\ declined' = (declined \/ out = "denied")
        /\ cmdFailed' = (cmdFailed \/ out # "ok")
        /\ IF out = "ok"
           THEN Return("True", "none")
           ELSE IF out = "timeout"
           THEN Except("TimeoutExpired", Return("False", "Timeout"))
           ELSE Except("CalledProcessError", Return("False", "CommandFailed"))
    /\ UNCHANGED <<envVars, store, op, silent, nested, all_certs, installed_certs,
                   cert_hashes, idx, removed_count, scratch, questions, verified,
                   queryFailed, queries, response, message, waits, okLaunches,
                   startStore, refreshes, outside>>

\* any other platform: "Unsupported Platform" dialog, `return False`
install_unsupported ==
    /\ pc = "i_platform"
    /\ platform \notin SupportedPlatforms
    /\ Notify(1)
    /\ Return("False", "UnsupportedPlatform")
    /\ UNCHANGED <<envVars, store, op, silent, nested, all_certs, installed_certs,
                   cert_hashes, idx, removed_count, scratch, built, gateway,
                   declined, questions, verified, queryFailed, queries, cmdFailed,
                   response, message, waits, okLaunches, startStore, refreshes, outside>>

\* ---------------------------------------------------------------- specification
Next ==
    \/ install_certificate_begin
    \/ install_confirm
    \/ install_win_prepare
    \/ install_win_launch
    \/ install_win_verify
    \/ install_mac
    \/ install_linux_cp
    \/ install_linux_refresh
    \/ install_unsupported
    \/ uninstall_certificates_begin
    \/ uninstall_detect
    \/ uninstall_confirm
    \/ uninstall_win_scan
    \/ uninstall_win_launch
    \/ uninstall_mac_delete
    \/ uninstall_linux_rm
    \/ uninstall_linux_refresh
    \/ uninstall_finish

Spec == Init /\ [][Next]_vars

\* ---------------------------------------------------------------- confirmation list
\* a store of n matching entries, all of different names, numbered from k + 1
LongStore(p, n, k) ==
    [i \in 1..n |->
        Entry((IF p = "Linux" THEN CanonStem ELSE CurrentCN) \o <<ToString(i + k)>>,
              ToString(i + k))]

LongStores(p) == {LongStore(p, n, k) : n \in 0..MaxList, k \in 0..MaxList}

\* the manager started on a store with up to MaxList matching entries
InitMsg ==
    /\ platform \in SupportedPlatforms
    /\ artifactExists = TRUE
    /\ certPath = <<"c", "a">>
    /\ store \in LongStores(platform)
    /\ InitCall
    /\ NoDialog

\* uninstall_certificates up to the answer to its confirmation
NextMsg ==
    \/ uninstall_certificates_begin
    \/ uninstall_detect
    \/ uninstall_confirm

SpecMsg == InitMsg /\ [][NextMsg]_vars

\* ---------------------------------------------------------------- store queries
\* the manager started on any store, of a supported platform or not
InitDetect ==
    /\ platform \in Platforms
    /\ artifactExists = TRUE
    /\ certPath = <<"c", "a">>
    /\ store \in Stores(platform)
    /\ InitCall
    /\ NoDialog

\* uninstall_certificates up to the answer to its confirmation
NextDetect ==
    \/ uninstall_certificates_begin
    \/ uninstall_detect
    \/ uninstall_confirm

SpecDetect == InitDetect /\ [][NextDetect]_vars

\* ---------------------------------------------------------------- Windows root store
\* a certificate issued by our CA to another subject, and a record of ours
\* whose listing has no usable hash line
WinProtos ==
    Protos("Windows") \cup
        {[name |-> OtherCN, issuer |-> CurrentCN, hash |-> "hS"],
         [name |-> CurrentCN, issuer |-> CurrentCN, hash |-> ""]}

WinStores ==
    {s \in UNION {[1..n -> WinProtos] : n \in 0..MaxStore} :
        \A i, j \in 1..Len(s) : i # j => s[i] # s[j]}

\* the manager started on Windows
InitWin ==
    /\ platform = "Windows"
    /\ artifactExists = TRUE
    /\ certPath = <<"c", "a">>
    /\ store \in WinStores
    /\ InitCall
    /\ NoDialog

\* uninstall_certificates on Windows
NextWin ==
    \/ uninstall_certificates_begin
    \/ uninstall_detect
    \/ uninstall_confirm
    \/ uninstall_win_scan
    \/ uninstall_win_launch
    \/ uninstall_finish

SpecWin == InitWin /\ [][NextWin]_vars

\* ---------------------------------------------------------------- expired-sessions dialog
UserIds == {"u1", "u2", "u3"}

\* sys.argv[1]: absent, not JSON, or a JSON array of sessions (their user ids)
Args ==
    {[kind |-> "missing", value |-> <<>>], [kind |-> "badjson", value |-> <<>>]} \cup
    {[kind |-> "list", value |-> l] :
        l \in UNION {[1..n -> UserIds] : n \in 0..MaxSessions}}

\* the methods of class ExpiredSessionsDialog and the attributes __init__ has
\* set when it registers the close handler
DialogAttrs ==
    {"center_window", "create_widgets", "create_session_card", "update_highlights",
     "refresh", "cancel", "show",
     "expired_sessions", "result", "root", "bg_color", "fg_color", "accent_color",
     "card_bg", "warning_color", "selected_user_id", "session_frames"}

\* `self.<name>` can be evaluated
HasAttr(name) == name \in DialogAttrs

\* the script started with one argument vector
InitDlg ==
    /\ platform = "Windows"
    /\ artifactExists = TRUE
    /\ certPath = <<"c", "a">>
    /\ store = <<>>
    /\ InitCall
    /\ argv \in Args
    /\ dpc = "start"
    /\ expired_sessions = <<>>
    /\ selected_user_id = "None"
    /\ session_frames = {}
    /\ dialog_result = "None"

certVars ==
    <<envVars, store, pc, op, silent, nested, all_certs, installed_certs,
      cert_hashes, idx, removed_count, uret, scratch, built, gateway, declined,
      questions, notices, verified, queryFailed, queries, cmdFailed, response,
      message, waits, okLaunches, refreshes, result, err, startStore, hist, other>>

\* __main__: the argument is checked and parsed, or the script exits with 1
main_parse ==
    /\ dpc = "start"
    /\ IF argv.kind = "list"
       THEN expired_sessions' = argv.value /\ dpc' = "init"
       ELSE dpc' = "exit1" /\ UNCHANGED expired_sessions
    /\ UNCHANGED <<certVars, argv, selected_user_id, session_frames, dialog_result>>

\* ExpiredSessionsDialog.__init__: result, selection, one card per session,
\* then `self.root.protocol("WM_DELETE_WINDOW", self.skip)`
dialog_init ==
    /\ dpc = "init"
    /\ dialog_result' = "None"
    /\ selected_user_id' =
            IF expired_sessions # <<>> THEN expired_sessions[1] ELSE "None"
    /\ session_frames' = Range(expired_sessions)
    /\ dpc' = IF HasAttr("skip") THEN "mainloop" ELSE "AttributeError"
    /\ UNCHANGED <<certVars, argv, expired_sessions>>

NextDlg ==
    \/ main_parse
    \/ dialog_init

SpecDlg == InitDlg /\ [][NextDlg]_vars

\* ---------------------------------------------------------------- two processes
\* the scheduler takes the running process off and puts the other one on
Switch ==
    /\ other' = Locals
    /\ pc' = other.pc
    /\ op' = other.op
    /\ silent' = other.silent
    /\ nested' = other.nested
    /\ all_certs' = other.all_certs
    /\ installed_certs' = other.installed_certs
    /\ cert_hashes' = other.cert_hashes
    /\ idx' = other.idx
    /\ removed_count' = other.removed_count
    /\ uret' = other.uret
    /\ scratch' = other.scratch
    /\ built' = other.built
    /\ gateway' = other.gateway
    /\ declined' = other.declined
    /\ questions' = other.questions
    /\ notices' = other.notices
    /\ verified' = other.verified
    /\ queryFailed' = other.queryFailed
    /\ queries' = other.queries
    /\ cmdFailed' = other.cmdFailed
    /\ response' = other.response
    /\ message' = other.message
    /\ waits' = other.waits
    /\ okLaunches' = other.okLaunches
    /\ refreshes' = other.refreshes
    /\ result' = other.result
    /\ err' = other.err
    /\ startStore' = other.startStore
    /\ hist' = other.hist
    /\ UNCHANGED <<envVars, store, dialogVars>>

\* a process that has not called yet calls install_certificate
process_install == hist = <<>> /\ install_certificate_begin

\* two processes started on the same trust store, empty or with one entry
InitTwo ==
    /\ platform \in SupportedPlatforms
    /\ artifactExists = TRUE
    /\ certPath = <<"c", "a">>
    /\ store \in {s \in Stores(platform) : Len(s) <= 1}
    /\ InitCall
    /\ NoDialog

\* each process runs install_certificate once; any step of one process may be
\* followed by a step of the other
NextTwo ==
    \/ process_install
    \/ install_confirm
    \/ uninstall_detect
    \/ uninstall_win_scan
    \/ uninstall_win_launch
    \/ uninstall_mac_delete
    \/ uninstall_linux_rm
    \/ uninstall_linux_refresh
    \/ uninstall_finish
    \/ install_win_prepare
    \/ install_win_launch
    \/ install_win_verify
    \/ install_mac
    \/ install_linux_cp
    \/ install_linux_refresh
    \/ Switch

SpecTwo == InitTwo /\ [][NextTwo]_vars

TypeOK ==
    /\ platform \in Platforms
    /\ pc \in {"idle", "done", "crashed", "i_confirm", "i_platform", "i_launch",
               "i_verify", "i_refresh", "u_detect", "u_confirm", "u_platform",
               "u_launch", "u_refresh", "u_finish"}
    /\ op \in {"none", "install", "uninstall"}
    /\ result \in {"none", "True", "False"}
    /\ uret \in {"none", "True", "False"}
    /\ response \in Responses \cup {"none"}
    /\ Len(hist) <= MaxCalls
    /\ scratch \subseteq {"install.bat", "uninstall.bat"}

\* ---------------------------------------------------------------- properties
\* the entry is named under the current convention ('Shipping Manager CoPilot CA')
IsCurrent(e) ==
    IF platform = "Linux" THEN GlobMatch(e.name) ELSE Contains(e.name, CurrentCN)

\* the entry is named under the legacy convention ('Shipping Manager Chat CA')
IsLegacy(e) ==
    IF platform = "Linux" THEN e.name = LegacyStem ELSE Contains(e.name, LegacyCN)

CountCurrent(st) == Cardinality({i \in 1..Len(st) : IsCurrent(st[i])})
CountLegacy(st) == Cardinality({i \in 1..Len(st) : IsLegacy(st[i])})
CountOurs(st) == CountCurrent(st) + CountLegacy(st)

InstallReturned == pc = "done" /\ op = "install"
UninstallReturned == pc = "done" /\ op = "uninstall"

\* uninstall_certificates has just returned, to the caller or to install_certificate
UReturned == uret # "none" /\ (UninstallReturned \/ (pc = "i_platform" /\ nested))

\* C1: whenever install_certificate returns True (its store queries having
\* run), the store holds exactly one current-convention entry and no
\* legacy-convention entry.
C1_InstallLeavesOneCurrentNoLegacy ==
    (InstallReturned /\ result = "True" /\ ~queryFailed) =>
        (CountCurrent(store) = 1 /\ CountLegacy(store) = 0)

\* C2: whenever uninstall_certificates returns True after its removal
\* commands ran, no current- or legacy-convention entry remains in the store.
C2_UninstallLeavesNone ==
    (UninstallReturned /\ result = "True" /\ ~queryFailed /\ installed_certs # <<>>)
        => CountOurs(store) = 0

\* C3: after two install_certificate calls in succession that both returned
\* True, the second having asked and got the consolidation confirmation,
\* exactly one matching entry is in the store.
C3_InstallTwiceOneEntry ==
    (/\ InstallReturned
     /\ Len(hist) = 2
     /\ hist[1] = [op |-> "install", result |-> "True"]
     /\ hist[2] = [op |-> "install", result |-> "True"]
     /\ questions = 1
     /\ ~queryFailed)
    => CountOurs(store) = 1

\* C4: on every supported platform and for every store content,
\* get_all_installed_certificates returns the identity of every current- and
\* every legacy-convention entry.
C4_DetectionComplete ==
    \A i \in 1..Len(store) :
        (platform \in SupportedPlatforms /\ (IsCurrent(store[i]) \/ IsLegacy(store[i]))) =>
            \E k \in 1..Len(get_all_installed_certificates(platform, store, "ok")) :
                Contains(get_all_installed_certificates(platform, store, "ok")[k],
                         store[i].name)

\* C5: an uninstall_certificates run that removed two or more entries issued
\* exactly one privileged-execution invocation.
C5_OneGatewayPerUninstall ==
    (UninstallReturned /\ Len(startStore) - Len(store) >= 2) => gateway = 1

\* C6: when its detection finds nothing, uninstall_certificates (silent or not)
\* returns True with removed_count 0, constructs and issues no privileged
\* command, leaves no script behind and leaves the trust store as it was.
C6_NoopSuccess ==
    (UReturned /\ installed_certs = <<>>) =>
        /\ uret = "True"
        /\ removed_count = 0
        /\ gateway = 0
        /\ built = 0
        /\ scratch = {}
        /\ store = startStore

\* C6 witness: a non-silent uninstall returned from a store that holds only
\* somebody else's certificate.
C6_Witness ==
    /\ UninstallReturned
    /\ ~silent
    /\ installed_certs = <<>>
    /\ Len(store) = 1
    /\ result = "True"

\* C7: with a quote or a statement separator in the artifact path,
\* install_certificate (on a supported platform, the artifact present, the
\* consolidation not cancelled) fails with UnsafePath and no privileged
\* command was constructed or executed in that call.
C7_UnsafePathBeforePrivileged ==
    (/\ InstallReturned
     /\ platform \in SupportedPlatforms
     /\ artifactExists
     /\ UnsafePath(certPath)
     /\ err # "Cancelled") =>
        (result = "False" /\ err = "UnsafePath" /\ built = 0 /\ gateway = 0)

\* C8: when install_certificate or uninstall_certificates returns, no batch
\* script the call generated is left on disk.
C8_NoScratchLeft ==
    pc = "done" => scratch = {}

\* C9: when an elevation prompt was declined during install_certificate, the
\* call returns False and the trust store is as it was before the call.
C9_DeclinedLeavesStore ==
    (InstallReturned /\ declined) => (result = "False" /\ store = startStore)

\* C10: install_certificate returns True only after is_certificate_installed
\* re-queried the store after the privileged install and found the entry.
C10_SuccessOnlyIfVerified ==
    (InstallReturned /\ result = "True") => verified

\* privileged commands of one install step: copy and refresh on Linux, one
\* batch or one osascript elsewhere
InstallCommands == IF platform = "Linux" THEN 2 ELSE 1

\* C11: on a fresh machine (artifact present, detection empty, every elevation
\* granted, every command and store write effective) install_certificate asks
\* no consolidation question, issues the privileged install step once, returns
\* True and leaves exactly one current-convention entry, the artifact's.
C11_FreshInstall ==
    (/\ InstallReturned
     /\ artifactExists
     /\ all_certs = <<>>
     /\ gateway >= 1
     /\ ~cmdFailed
     /\ ~queryFailed)
    => /\ result = "True"
       /\ questions = 0
       /\ gateway = InstallCommands
       /\ CountCurrent(store) = 1
       /\ \E i \in 1..Len(store) : IsCurrent(store[i]) /\ store[i].hash = ArtifactHash

\* C11 witness: an install on an empty store has returned True with one entry.
C11_Witness ==
    /\ InstallReturned
    /\ startStore = <<>>
    /\ all_certs = <<>>
    /\ ~cmdFailed
    /\ ~queryFailed
    /\ result = "True"
    /\ Len(store) = 1

\* C12: with the artifact file missing, install_certificate returns False
\* (ArtifactMissing) having run no detection query, asked no confirmation,
\* constructed and issued no privileged command, and the store is unchanged.
C12_ArtifactMissing ==
    (InstallReturned /\ ~artifactExists) =>
        /\ result = "False"
        /\ err = "ArtifactMissing"
        /\ queries = 0
        /\ questions = 0
        /\ built = 0
        /\ gateway = 0
        /\ store = startStore

\* C12 witness: an install without the artifact has returned, on a store that
\* holds a certificate of ours.
C12_Witness ==
    /\ InstallReturned
    /\ ~artifactExists
    /\ CountOurs(store) >= 1
    /\ err = "ArtifactMissing"

\* C13: when the confirmation of install_certificate or uninstall_certificates
\* was answered by anything other than 'Yes' (No, or the dialog closed), the
\* operation returns False, no elevation prompt was shown, no privileged
\* command was built and the store is unchanged.
C13_NonAffirmativeCancels ==
    (pc = "done" /\ response \in {"No", "closed"}) =>
        /\ result = "False"
        /\ err = "Cancelled"
        /\ gateway = 0
        /\ built = 0
        /\ store = startStore

\* C13 witness: an install and then an uninstall have both returned False, the
\* uninstall after its confirmation dialog was closed.
C13_Witness ==
    /\ UninstallReturned
    /\ response = "closed"
    /\ questions = 1
    /\ Len(hist) = 2
    /\ hist[1] = [op |-> "install", result |-> "False"]
    /\ hist[2] = [op |-> "uninstall", result |-> "False"]

\* C14: when the detection query of an operation failed (non-zero exit,
\* exception or timeout), the operation returns False: the failure is not
\* taken for a store without matching entries.
C14_QueryFailurePropagates ==
    (pc = "done" /\ queries = 1 /\ queryFailed) => result = "False"

\* C15: an uninstall_certificates call that went past the confirmation (or
\* found nothing to confirm) returns True exactly when it removed at least one
\* entry or its pre-check found no match.
C15_SuccessIffRemovedOrNoop ==
    (UninstallReturned /\ (silent \/ response = "Yes" \/ installed_certs = <<>>)) =>
        (result = "True" <=> (removed_count > 0 \/ installed_certs = <<>>))

\* C16: once an elevation prompt of the running invocation was declined, the
\* invocation issues no further elevation prompt.
C16_DeclineIsTerminal ==
    [][(declined /\ pc \notin {"idle", "done"}) => gateway' <= gateway]_vars

\* C17: no exception leaves an operation and the hosting process is never
\* ended: an operation under way always has a next step, and a finished one
\* has returned True or False.
C17_AlwaysReturns ==
    /\ pc # "crashed"
    /\ pc \notin {"idle", "done"} => ENABLED Next
    /\ pc = "done" => result \in {"True", "False"}

\* C17 witness: an install has returned False after a command of it raised.
C17_Witness ==
    /\ InstallReturned
    /\ err = "Exception"
    /\ cmdFailed
    /\ result = "False"

\* C20: no completion wait is performed after a launch that returned 32 or
\* less: every wait of a call follows a successful launch of that call.
C20_NoWaitAfterFailedLaunch ==
    waits <= okLaunches

\* C18: the uninstall confirmation shows the first min(n, 5) of the n detected
\* identities, in detection order, and the truncation mark exactly when n > 5.
C18_ConfirmationList ==
    (op = "uninstall" /\ questions = 1) =>
        LET n == Len(installed_certs)
            m == IF n < 5 THEN n ELSE 5
        IN  /\ Len(message.shown) = m
            /\ \A i \in 1..m : message.shown[i] = installed_certs[i]
            /\ message.more = (n > 5)

\* C18 witness: the confirmation was shown for six detected identities.
C18_Witness ==
    /\ op = "uninstall"
    /\ questions = 1
    /\ Len(installed_certs) = 6
    /\ Len(message.shown) = 5
    /\ message.more

\* the subject line of the record names one of our certificates
SubjectIsOurs(e) ==
    Contains(<<"CN=">> \o e.name, <<"CN=">> \o CurrentCN) \/
    Contains(<<"CN=">> \o e.name, <<"CN=">> \o LegacyCN)

\* C19: every hash the Windows scanner collected is the hash of a record of the
\* scanned store whose own subject line names one of our certificates.
C19_HashesOfMatchedSubjects ==
    \A k \in 1..Len(cert_hashes) :
        \E i \in 1..Len(startStore) :
            startStore[i].hash = cert_hashes[k] /\ SubjectIsOurs(startStore[i])

\* C21: on Linux, update-ca-certificates is run by uninstall_certificates at
\* most once per run, only after the deletion loop has passed its last entry
\* and only when a file was deleted; a run that has returned ran it exactly
\* when it deleted a file.
C21_RefreshOnceAfterDeletions ==
    /\ refreshes <= 1
    /\ refreshes = 1 =>
        (platform = "Linux" /\ idx > Len(installed_certs) /\ removed_count > 0)
    /\ (platform = "Linux" /\ uret # "none") => (refreshes = 1 <=> removed_count > 0)

\* C21 witness: a Linux uninstall that deleted two files has returned.
C21_Witness ==
    /\ UninstallReturned
    /\ platform = "Linux"
    /\ removed_count = 2
    /\ refreshes = 1

\* C22: the list a detection returned holds no identity string twice.
C22_NoDuplicateIdentity ==
    /\ \A i, j \in 1..Len(installed_certs) :
            i # j => installed_certs[i] # installed_certs[j]
    /\ \A i, j \in 1..Len(all_certs) : i # j => all_certs[i] # all_certs[j]

\* C23: an install_certificate call that needed no consolidation and returned
\* True showed exactly one elevation prompt.
C23_OnePromptPerInstall ==
    (InstallReturned /\ ~nested /\ result = "True") => gateway = 1

\* the positions inside uninstall_certificates
UStates == {"u_detect", "u_confirm", "u_platform", "u_launch", "u_refresh", "u_finish"}

\* C24: no step of a silent uninstall_certificates shows a dialog or asks a
\* question, an install_certificate run asks at most one question, and a
\* non-silent uninstall that built a removal command or ran one has asked its
\* question before and got 'Yes'.
C24_SilentNeverAsks ==
    /\ [][(silent /\ pc \in UStates) =>
            (notices' = notices /\ questions' = questions)]_vars
    /\ [](op = "install" => questions <= 1)
    /\ []((op = "uninstall" /\ ~silent /\ (built > 0 \/ gateway > 0 \/ queries > 1))
            => (questions = 1 /\ response = "Yes"))

\* C24 witness: an install has returned True after a confirmed consolidation
\* that removed an entry, with one question asked.
C24_Witness ==
    /\ InstallReturned
    /\ nested
    /\ silent
    /\ removed_count > 0
    /\ questions = 1
    /\ result = "True"

\* C25: for every non-empty list of expired sessions the dialog is
\* constructed: the constructor ends in the event loop, not in an exception.
C25_DialogConstructed ==
    (argv.kind = "list" /\ argv.value # <<>> /\ dpc \notin {"start", "init"})
        => dpc = "mainloop"

\* C26: on every supported platform and for every store content, when the
\* verification query for the current identity succeeds and reports True, the
\* detection query on the same store returns a non-empty list.
C26_VerifiedIsDetected ==
    (platform \in SupportedPlatforms /\
     is_certificate_installed(platform, store, "ok", CurrentCN))
        => get_all_installed_certificates(platform, store, "ok") # <<>>

\* C26 witness: the store holds the current certificate and another one, the
\* verification reports True for it and the detection of an uninstall has
\* returned a non-empty list.
C26_Witness ==
    /\ op = "uninstall"
    /\ pc = "u_confirm"
    /\ ~queryFailed
    /\ Len(store) = 2
    /\ is_certificate_installed(platform, store, "ok", CurrentCN)
    /\ installed_certs # <<>>

\* C27: when the silent uninstall_certificates called by install_certificate
\* returns, True or False, install_certificate is at its platform step with no
\* result yet and that step can be taken; when such an install returns False
\* the failure is one of the install step, never the consolidation's.
C27_ConsolidationResultIgnored ==
    /\ [][(nested /\ uret = "none" /\ uret' # "none") =>
            (pc' = "i_platform" /\ result' = "none" /\ hist' = hist)]_vars
    /\ []((pc = "i_platform" /\ nested) =>
            ENABLED (install_win_prepare \/ install_mac \/ install_linux_cp
                     \/ install_unsupported))
    /\ []((InstallReturned /\ nested /\ result = "False") =>
            err \in {"UnsafePath", "Exception", "ElevationLaunchFailed",
                     "InstallUnverified", "Timeout", "CommandFailed"})

\* C27 witness: the consolidation returned False and install_certificate went
\* on and returned True.
C27_Witness ==
    /\ InstallReturned
    /\ nested
    /\ uret = "False"
    /\ result = "True"

\* the entries of the store that are named under one of our conventions
MatchingEntries(st) ==
    {st[i] : i \in {k \in 1..Len(st) : IsCurrent(st[k]) \/ IsLegacy(st[k])}}

\* C28: whenever install_certificate returns False, the set of matching
\* trust-store entries is the one the call found.
C28_FailedInstallLeavesStore ==
    (InstallReturned /\ result = "False") =>
        MatchingEntries(store) = MatchingEntries(startStore)

\* C29: on Windows, the hashes collected for the removal batch are as many as
\* the identities the detection of the same run returned (the queries having
\* succeeded).
C29_HashCountIsDetectedCount ==
    (platform = "Windows" /\ op = "uninstall" /\ ~queryFailed /\ cert_hashes # <<>>)
        => Len(cert_hashes) = Len(installed_certs)

\* C30: once two processes that ran install_certificate on the same store have
\* both returned (every store query of theirs having run), and one of them
\* returned True, the store holds exactly one current-convention entry and no
\* legacy-convention entry.
C30_ConcurrentInstallsOneEntry ==
    (/\ pc = "done" /\ op = "install"
     /\ other.pc = "done" /\ other.op = "install"
     /\ ~queryFailed /\ ~other.queryFailed
     /\ (result = "True" \/ other.result = "True"))
    => (CountCurrent(store) = 1 /\ CountLegacy(store) = 0)

====
